---- MODULE Spec2Model ----
(***************************************************************************)
(* Ormur (lib/index.js, lib/util.js, lib/error.js): the attribute and      *)
(* lifecycle engine of an active-record style model class.                 *)
(*                                                                         *)
(* One behaviour is one Node.js process that uses one model class: the     *)
(* class (its schema and whether its constructor assigns `this.knex`) is   *)
(* chosen in Init; the actions are the calls a program makes on the class  *)
(* and its instances, the process.nextTick callbacks, the continuations of *)
(* the promises and the replies of the store.                              *)
(***************************************************************************)
EXTENDS Naturals, Sequences, FiniteSets, TLC

(***************************************************************************)
(* Bounds of the model.                                                    *)
(***************************************************************************)
MaxNew == 1       \* instances the program constructs itself in one behaviour
MaxOps == 2       \* asynchronous operations started in one behaviour
MaxWrites == 1    \* accessor writes of the program in one behaviour
MaxRows == 2      \* primary keys the store hands out

(***************************************************************************)
(* JavaScript values.  t is the kind of the value, n tells two values of   *)
(* a kind apart (integer n is the number n, boolean 0/1 is false/true,     *)
(* string 0 is the empty string), x counts the transforms the value went   *)
(* through.  A promise value is the promise a transform returned to the    *)
(* operation n.                                                            *)
(***************************************************************************)
Val(t, n) == [t |-> t, n |-> n, x |-> 0]
Undefined == Val("undefined", 0)
Null == Val("null", 0)
PromiseOf(o) == Val("promise", o)

IsUndefined(v) == v.t = "undefined"
IsNull(v) == v.t = "null"
IsPromise(v) == v.t = "promise"

\* JavaScript truthiness: undefined, null, 0, false and '' are falsy.
Truthy(v) ==
  /\ v.t \notin {"undefined", "null"}
  /\ ~(v.t \in {"integer", "boolean", "string"} /\ v.n = 0 /\ v.x = 0)

(***************************************************************************)
(* Key casing.  lodash splits a key into words (at underscores and at      *)
(* lower-to-upper transitions) and joins them again: with "_" and in       *)
(* lower case for snakeCase, capitalised from the second word on for       *)
(* camelCase.                                                              *)
(***************************************************************************)
Words(key) ==
  CASE key \in {"isCool", "is_cool"} -> <<"is", "cool">>
    [] key \in {"secretKey", "secret_key"} -> <<"secret", "key">>
    [] key \in {"createdAt", "created_at"} -> <<"created", "at">>
    [] key \in {"foreignTableId", "foreign_table_id"} -> <<"foreign", "table", "id">>
    [] OTHER -> <<key>>

Capitalize(word) ==
  CASE word = "cool" -> "Cool"
    [] word = "key" -> "Key"
    [] word = "at" -> "At"
    [] word = "table" -> "Table"
    [] word = "id" -> "Id"
    [] OTHER -> word

RECURSIVE JoinSnake(_)
JoinSnake(ws) ==
  IF Len(ws) = 1 THEN ws[1] ELSE ws[1] \o "_" \o JoinSnake(Tail(ws))

RECURSIVE JoinCamel(_)
JoinCamel(ws) ==
  IF Len(ws) = 0 THEN "" ELSE Capitalize(ws[1]) \o JoinCamel(Tail(ws))

SnakeCase(key) == JoinSnake(Words(key))
CamelCase(key) == LET ws == Words(key) IN ws[1] \o JoinCamel(Tail(ws))

(***************************************************************************)
(* Column rules and the model classes of the behaviours.  A schema is the  *)
(* sequence of its column rules in declaration order (the order in which   *)
(* lodash iterates the object the `schema` getter returns).                *)
(***************************************************************************)
NoDefault == [kind |-> "none", value |-> Undefined]
Literal(v) == [kind |-> "literal", value |-> v]
Computed(v) == [kind |-> "function", value |-> v]

Col(column, type) ==
  [column |-> column, type |-> type, primaryKey |-> FALSE, notNull |-> FALSE,
   hidden |-> FALSE, auto |-> FALSE, defaultValue |-> NoDefault,
   transform |-> "none", validate |-> "none"]

IdCol == [Col("id", "integer") EXCEPT !.primaryKey = TRUE]

\* test/index.js: the User model, with the columns the operations differ on.
UserSchema ==
  << IdCol,
     [Col("name", "string") EXCEPT !.notNull = TRUE],
     [Col("password", "string") EXCEPT !.transform = "sync", !.hidden = TRUE] >>

\* test/index.js: a transform that returns a promise, README: computed default.
TokenSchema ==
  << IdCol,
     [Col("foreignTableId", "uuid") EXCEPT !.transform = "async", !.validate = "isUuid"],
     [Col("createdAt", "date") EXCEPT !.notNull = TRUE,
                                      !.defaultValue = Computed(Val("date", 1))] >>

\* Literal defaults, one of them falsy.
CounterSchema ==
  << IdCol,
     [Col("count", "integer") EXCEPT !.notNull = TRUE,
                                     !.defaultValue = Literal(Val("integer", 0))],
     [Col("isCool", "boolean") EXCEPT !.notNull = TRUE,
                                      !.defaultValue = Literal(Val("boolean", 1))] >>

\* test/index.js: class Override, a full `schema` override without a primary key.
OverrideSchema == << Col("foo", "string") >>

\* Two rules marked primaryKey.
PairSchema ==
  << IdCol, [Col("uuid", "uuid") EXCEPT !.primaryKey = TRUE] >>

\* A hidden column and a public column whose names differ in casing only.
SecretSchema ==
  << IdCol,
     [Col("secretKey", "string") EXCEPT !.hidden = TRUE],
     Col("secret_key", "string") >>

\* A transform that returns what it is given when that is undefined or null
\* (value => value && change(value)), and a column marked auto.
NoteSchema ==
  << IdCol,
     [Col("body", "string") EXCEPT !.transform = "optional"],
     [Col("stamp", "date") EXCEPT !.auto = TRUE] >>

Models ==
  { [name |-> "User", schema |-> UserSchema],
    [name |-> "Note", schema |-> NoteSchema],
    [name |-> "Token", schema |-> TokenSchema],
    [name |-> "Counter", schema |-> CounterSchema],
    [name |-> "Override", schema |-> OverrideSchema],
    [name |-> "Pair", schema |-> PairSchema],
    [name |-> "Secret", schema |-> SecretSchema] }

(***************************************************************************)
(* Schema resolution.  A declaration is what a getter returns: a sequence  *)
(* of column declarations, each with the rule fields it mentions.          *)
(***************************************************************************)
DeclaredColumns(declaration) == {declaration[k].column : k \in DOMAIN declaration}
DeclarationOf(declaration, column) ==
  declaration[CHOOSE k \in DOMAIN declaration : declaration[k].column = column]

\* A merge in which the destination wins on a collision.
MergeKeepsDestination(destination, source) ==
  [k \in DOMAIN destination |->
     IF destination[k].column \in DeclaredColumns(source)
     THEN destination[k] @@ DeclarationOf(source, destination[k].column)
     ELSE destination[k]]
    \o SelectSeq(source, LAMBDA rule : rule.column \notin DeclaredColumns(destination))

\* lines 234-236: _.merge(destination, source).  The fields of the source
\* are assigned over those of the destination, column by column; a column
\* the destination lacks is added after its columns.  An undefined source
\* (here << >>) leaves the destination.
Merge(destination, source) ==
  [k \in DOMAIN destination |->
     IF destination[k].column \in DeclaredColumns(source)
     THEN DeclarationOf(source, destination[k].column) @@ destination[k]
     ELSE destination[k]]
    \o SelectSeq(source, LAMBDA rule : rule.column \notin DeclaredColumns(destination))

\* The rules as the engine reads them: a field a declaration does not
\* mention reads as undefined, which is falsy.
Rules(declaration) ==
  [k \in DOMAIN declaration |-> declaration[k] @@ Col(declaration[k].column, "undefined")]

\* test/index.js lines 304-340: the base class merges its own declaration
\* with this.inheritedSchema; a subclass supplies inheritedSchema or
\* overrides the `schema` getter.
BaseDeclaration == << [column |-> "id", type |-> "integer", primaryKey |-> TRUE] >>
SubclassingClasses ==
  { [name |-> "WithPrimaryKey", override |-> FALSE, own |-> << >>],
    [name |-> "SubClassed", override |-> FALSE,
     own |-> << [column |-> "foo", type |-> "string"] >>],
    [name |-> "Retyped", override |-> FALSE,
     own |-> << [column |-> "id", type |-> "uuid"],
                [column |-> "foo", type |-> "string", notNull |-> TRUE] >>],
    [name |-> "Override", override |-> TRUE,
     own |-> << [column |-> "foo", type |-> "string"] >>] }

\* The `schema` getter of a class.
SchemaOf(class) ==
  IF class.override THEN Rules(class.own)
  ELSE Rules(Merge(BaseDeclaration, class.own))

SubclassingModels == {[name |-> class.name, schema |-> SchemaOf(class)] : class \in SubclassingClasses}

\* inflection.tableize(this.constructor.name)
Tableize(name) ==
  CASE name = "User" -> "users"
    [] name = "Note" -> "notes"
    [] name = "WithPrimaryKey" -> "with_primary_keys"
    [] name = "SubClassed" -> "sub_classeds"
    [] name = "Retyped" -> "retypeds"
    [] name = "Token" -> "tokens"
    [] name = "Counter" -> "counters"
    [] name = "Override" -> "overrides"
    [] name = "Pair" -> "pairs"
    [] name = "Secret" -> "secrets"

VARIABLES
  model,          \* the model class: its name, its schema, whether its constructor sets knex
  instances,      \* the instances constructed so far
  nextTickQueue,  \* process.nextTick callbacks not yet run: the instance each will check
  uncaught,       \* the error that ended the process, "" while it runs
  ops,            \* the asynchronous operations started so far
  calls,          \* the calls that reached the store interface, in order
  table,          \* the rows of the model's table, by primary-key value
  sequence,       \* the next primary key the store generates
  writes,         \* the accessor writes the program made so far
  last            \* the latest call of the program and how it returned

vars == <<model, instances, nextTickQueue, uncaught, ops, calls, table, sequence, writes, last>>

Range(seq) == {seq[k] : k \in DOMAIN seq}
Columns == {model.schema[k].column : k \in DOMAIN model.schema}
RuleOf(column) ==
  model.schema[CHOOSE k \in DOMAIN model.schema : model.schema[k].column = column]
Get(obj, key) == IF key \in DOMAIN obj THEN obj[key] ELSE Undefined

(***************************************************************************)
(* _properties: a JavaScript object, its keys in insertion order.  vals    *)
(* is Undefined at every column that is no key of the object.              *)
(***************************************************************************)
EmptyObject == [keys |-> <<>>, vals |-> [c \in Columns |-> Undefined]]
Put(obj, column, value) ==
  [keys |-> IF column \in Range(obj.keys) THEN obj.keys ELSE Append(obj.keys, column),
   vals |-> [obj.vals EXCEPT ![column] = value]]

\* The key of obj that is written last to the key `key` of the morphed object.
Morph(casing, key) == IF casing = "snake" THEN SnakeCase(key) ELSE CamelCase(key)
LastSource(obj, key, casing) ==
  obj.keys[CHOOSE k \in DOMAIN obj.keys :
             /\ Morph(casing, obj.keys[k]) = key
             /\ \A j \in DOMAIN obj.keys : Morph(casing, obj.keys[j]) = key => j <= k]

\* A conversion that keeps the keys as they are.
SnakeCasedKeepsKeys(obj) == [key \in Range(obj.keys) |-> obj.vals[key]]

\* util.js lines 16-21 and 29-34: the plain object with the morphed keys.
SnakeCased(obj) ==
  [key \in {SnakeCase(c) : c \in Range(obj.keys)} |->
     obj.vals[LastSource(obj, key, "snake")]]
CamelCased(obj) ==
  [key \in {CamelCase(c) : c \in Range(obj.keys)} |->
     obj.vals[LastSource(obj, key, "camel")]]

(***************************************************************************)
(* constructor, _applySchema, _ensureMinimumConfiguration                  *)
(***************************************************************************)
\* lines 27-31: every rule marked primaryKey overwrites _primaryKey, the last one stays.
RECURSIVE PrimaryKeyOf(_)
PrimaryKeyOf(schema) ==
  IF Len(schema) = 0 THEN ""
  ELSE IF schema[Len(schema)].primaryKey THEN schema[Len(schema)].column
  ELSE PrimaryKeyOf(SubSeq(schema, 1, Len(schema) - 1))

\* lines 41-47: the value of a column is read from the attribute of its own
\* name, else from the attribute of its snake_cased name.
ReadAttribute(attributes, column) ==
  IF ~IsUndefined(Get(attributes, column)) THEN Get(attributes, column)
  ELSE Get(attributes, SnakeCase(column))

\* lines 40-56: the reduce over the schema, in declaration order.
RECURSIVE ReadProperties(_, _)
ReadProperties(attributes, schema) ==
  IF Len(schema) = 0 THEN EmptyObject
  ELSE LET memo == ReadProperties(attributes, SubSeq(schema, 1, Len(schema) - 1))
           column == schema[Len(schema)].column
           value == ReadAttribute(attributes, column)
       IN IF IsUndefined(value) THEN memo ELSE Put(memo, column, value)

\* The ordinary fields of an instance: what a write to a key without an
\* accessor pair sets.  "extra" is a key that is no column of any schema, and
\* "" is the key an unset _primaryKey names (lines 210 and 287).
FieldKeys == Columns \cup {"extra", ""}
NoFields == [key \in FieldKeys |-> Undefined]

\* lines 26-57.  hasProperties is FALSE when _properties is left unset, and
\* accessors tells whether the accessor pairs were defined.
ApplySchema(attributes, empty) ==
  [ primaryKey |-> PrimaryKeyOf(model.schema),
    fields |-> NoFields,
    hasProperties |-> ~empty,
    accessors |-> ~empty,
    properties |-> IF empty THEN EmptyObject
                   ELSE ReadProperties(attributes, model.schema) ]

\* lines 62-70; "" when the instance passes.
EnsureMinimumConfiguration(inst) ==
  IF ~inst.knex THEN "ConfigurationError: Knex has not been configured."
  ELSE IF inst.primaryKey = "" THEN "ConfigurationError: A primary key must be defined."
  ELSE ""

\* A constructor that runs the check itself instead of deferring it.
BaseConstructorChecksInline(attributes, empty) ==
  LET made == ApplySchema(attributes, empty)
                @@ [tableName |-> Tableize(model.name), knex |-> FALSE,
                    config |-> "scheduled"]
  IN [instance |-> made, scheduled |-> 0, thrown |-> EnsureMinimumConfiguration(made)]

\* lines 13-21: Ormur's constructor.  It schedules the check (scheduled is the
\* number of process.nextTick callbacks it leaves) and throws nothing.
BaseConstructor(attributes, empty) ==
  [ instance |-> ApplySchema(attributes, empty)
                   @@ [tableName |-> Tableize(model.name), knex |-> FALSE,
                       config |-> "scheduled"],
    scheduled |-> 1,
    thrown |-> "" ]

\* The constructor chain of `new`: super(...), then the rest of the subclass
\* constructor, which assigns this.knex when the class does so.
Construct(attributes, empty) ==
  LET base == BaseConstructor(attributes, empty) IN
  IF base.thrown # "" THEN base
  ELSE [base EXCEPT !.instance.knex = model.knex]

(***************************************************************************)
(* validate, setDefaults, callTransforms, beforeSave                       *)
(***************************************************************************)
IsString(v) == v.t \in {"string", "uuid"}
\* util.js lines 42-48: the strings of kind "uuid" are those the regex matches.
IsUuid(v) == v.t = "uuid"

\* A type check that takes any string for a uuid.
TypeMismatchAnyString(type, v) ==
  \/ type \in {"string", "uuid"} /\ ~IsString(v)
  \/ type \in {"integer", "boolean", "date"} /\ v.t # type

\* lines 95-99
TypeMismatch(type, v) ==
  \/ type = "string" /\ ~IsString(v)
  \/ type = "integer" /\ v.t # "integer"
  \/ type = "boolean" /\ v.t # "boolean"
  \/ type = "date" /\ v.t # "date"
  \/ type = "uuid" /\ ~IsUuid(v)

\* The custom validators of the schemas.
Predicate(name, v) ==
  CASE name = "isUuid" -> IsUuid(v)
    [] name = "positive" -> v.t = "integer" /\ v.n > 0
    [] OTHER -> TRUE

\* lines 78-86: the stored value, or the default when the value is not set.
ProspectiveValue(rules, obj) ==
  IF IsUndefined(obj.vals[rules.column]) /\ rules.defaultValue.kind # "none"
  THEN rules.defaultValue.value
  ELSE obj.vals[rules.column]

\* A notNull check that lets null pass.
ValidateColumnAllowsNull(rules, obj) ==
  LET value == ProspectiveValue(rules, obj) IN
  IF rules.notNull /\ IsUndefined(value)
  THEN rules.column \o " cannot be null"
  ELSE IF ~IsUndefined(value) /\ ~IsNull(value) /\ ~rules.auto
          /\ TypeMismatch(rules.type, value)
  THEN rules.column \o " must be of type " \o rules.type
  ELSE IF ~IsUndefined(value) /\ rules.validate # "none"
          /\ ~Predicate(rules.validate, value)
  THEN "column validation failed for " \o rules.column
  ELSE ""

\* lines 88-109: the message of the violation of one column, "" when it passes.
ValidateColumn(rules, obj) ==
  LET value == ProspectiveValue(rules, obj) IN
  IF rules.notNull /\ (IsUndefined(value) \/ IsNull(value))
  THEN rules.column \o " cannot be null"
  ELSE IF ~IsUndefined(value) /\ ~IsNull(value) /\ ~rules.auto
          /\ TypeMismatch(rules.type, value)
  THEN rules.column \o " must be of type " \o rules.type
  ELSE IF ~IsUndefined(value) /\ rules.validate # "none"
          /\ ~Predicate(rules.validate, value)
  THEN "column validation failed for " \o rules.column
  ELSE ""

\* A validation that goes through every column and reports the last violation.
RECURSIVE ValidateFromLast(_, _)
ValidateFromLast(schema, obj) ==
  IF Len(schema) = 0 THEN ""
  ELSE IF ValidateFromLast(Tail(schema), obj) # ""
  THEN ValidateFromLast(Tail(schema), obj)
  ELSE IF ValidateColumn(Head(schema), obj) # ""
  THEN "ValidationError: " \o ValidateColumn(Head(schema), obj)
  ELSE ""

\* lines 76-113: the first violation in declaration order is thrown.
RECURSIVE ValidateFrom(_, _)
ValidateFrom(schema, obj) ==
  IF Len(schema) = 0 THEN ""
  ELSE IF ValidateColumn(Head(schema), obj) # ""
  THEN "ValidationError: " \o ValidateColumn(Head(schema), obj)
  ELSE ValidateFrom(Tail(schema), obj)

Validate(obj) == ValidateFrom(model.schema, obj)

\* line 121: `rules.defaultValue` as a condition.
DefaultIsTruthy(rules) ==
  \/ rules.defaultValue.kind = "function"
  \/ rules.defaultValue.kind = "literal" /\ Truthy(rules.defaultValue.value)

\* lines 118-129
RECURSIVE SetDefaultsFrom(_, _)
SetDefaultsFrom(schema, obj) ==
  IF Len(schema) = 0 THEN obj
  ELSE LET rules == Head(schema)
           next == IF IsUndefined(obj.vals[rules.column]) /\ DefaultIsTruthy(rules)
                   THEN Put(obj, rules.column, rules.defaultValue.value)
                   ELSE obj
       IN SetDefaultsFrom(Tail(schema), next)

SetDefaults(obj) == SetDefaultsFrom(model.schema, obj)

\* What a transform makes of a value: a value of the column's type that went
\* through one more transform.
TransformValue(rules, v) == [t |-> rules.type, n |-> v.n, x |-> v.x + 1]

NoPromise == [state |-> "none", input |-> Undefined]
NoPromises == [c \in Columns |-> NoPromise]

\* line 141: rules.transform(value), for a transform that returns a value.
TransformResult(rules, value) ==
  IF rules.transform = "optional" /\ (IsUndefined(value) \/ IsNull(value))
  THEN value
  ELSE TransformValue(rules, value)

\* lines 138-147: every transform is called with the current value; the
\* promise an asynchronous transform returns is stored in its place.  The
\* read of `.then` (line 143) throws when the transform returned undefined
\* or null, and the loop ends there.
RECURSIVE CallTransformsFrom(_, _, _)
CallTransformsFrom(schema, run, o) ==
  IF Len(schema) = 0 \/ run.error # "" THEN run
  ELSE LET rules == Head(schema)
           value == run.properties.vals[rules.column]
           result == TransformResult(rules, value)
           next ==
             IF rules.transform \in {"sync", "optional"}
             THEN [run EXCEPT !.properties = Put(@, rules.column, result),
                              !.error = IF IsUndefined(result) \/ IsNull(result)
                                        THEN "TypeError: Cannot read property 'then' of "
                                               \o result.t
                                        ELSE ""]
             ELSE IF rules.transform = "async"
             THEN [run EXCEPT !.properties = Put(@, rules.column, PromiseOf(o)),
                              !.promises[rules.column] =
                                 [state |-> "pending", input |-> value]]
             ELSE run
       IN CallTransformsFrom(Tail(schema), next, o)

\* A run of the pipeline on an instance: the properties as they stand, the
\* promises the transforms returned, the error thrown and the steps taken.
StartRun(obj) ==
  [properties |-> obj, promises |-> NoPromises, error |-> "", log |-> <<>>]

\* A validation that keeps the defaults it checked with.
ValidateStepWritesDefaults(run) ==
  [run EXCEPT !.error = Validate(run.properties),
              !.properties = [keys |-> run.properties.keys,
                              vals |-> [c \in Columns |->
                                          ProspectiveValue(RuleOf(c), run.properties)]],
              !.log = Append(@, "validate")]

\* lines 76-113: validate() reads the properties into a local (line 78) and
\* throws or returns true.
ValidateStep(run) ==
  [run EXCEPT !.error = Validate(run.properties), !.log = Append(@, "validate")]
SetDefaultsStep(run) ==
  [run EXCEPT !.properties = SetDefaults(@), !.log = Append(@, "setDefaults")]
CallTransformsStep(run, o) ==
  [CallTransformsFrom(model.schema, run, o) EXCEPT !.log = Append(@, "callTransforms")]

\* A pipeline that sets the defaults before it validates.
BeforeSaveDefaultsFirst(obj, o) ==
  LET validated == ValidateStep(SetDefaultsStep(StartRun(obj))) IN
  IF validated.error # "" THEN validated
  ELSE CallTransformsStep(validated, o)

\* lines 167-171
BeforeSave(obj, o) ==
  LET validated == ValidateStep(StartRun(obj)) IN
  IF validated.error # "" THEN validated
  ELSE CallTransformsStep(SetDefaultsStep(validated), o)

\* lines 150-154: the results of the promises are written into the properties.
WriteBack(obj, promises) ==
  [keys |-> obj.keys,
   vals |-> [c \in Columns |->
               IF promises[c].state = "resolved"
               THEN TransformValue(RuleOf(c), promises[c].input)
               ELSE obj.vals[c]]]

(***************************************************************************)
(* toJSON                                                                  *)
(***************************************************************************)
\* lines 222-223
HiddenColumns == {c \in Columns : RuleOf(c).hidden}

\* _.omit(object, keys)
Omit(obj, columns) ==
  [keys |-> SelectSeq(obj.keys, LAMBDA c : c \notin columns),
   vals |-> [c \in Columns |-> IF c \in columns THEN Undefined ELSE obj.vals[c]]]

\* A view that omits nothing.
ToJSONWithoutOmit(inst) == CamelCased(inst.properties)

\* lines 221-225
ToJSON(inst) == CamelCased(Omit(inst.properties, HiddenColumns))

(***************************************************************************)
(* The store: one table, its columns the snake_cased columns of the        *)
(* schema, its rows kept by primary-key value.  A column without a value   *)
(* is NULL in the row, and the store generates the primary key of a row    *)
(* inserted without one.                                                   *)
(***************************************************************************)
StoreColumns == {SnakeCase(c) : c \in Columns}
Ids == 1..MaxRows
NoRow == [key \in {} |-> Undefined]
NoPayload == [key \in {} |-> Undefined]
IsSet(v) == ~IsUndefined(v) /\ ~IsNull(v)

\* knex.insert(payload, primaryKey).into(table).returning('*')
InsertedRow(payload, primaryKey) ==
  [key \in StoreColumns |->
     IF key = SnakeCase(primaryKey) /\ ~IsSet(Get(payload, key))
     THEN Val(RuleOf(primaryKey).type, sequence)
     ELSE IF IsUndefined(Get(payload, key)) THEN Null ELSE payload[key]]

\* knex(table).where(primaryKey, value).returning('*').update(payload)
UpdatedRow(row, payload) ==
  [key \in StoreColumns |->
     IF IsUndefined(Get(payload, key)) THEN row[key] ELSE payload[key]]

\* The values of the behaviours: two of the type of a column, one of another type.
Good(rules) == Val(rules.type, 1)
Other(rules) == Val(rules.type, 2)
Bad(rules) == IF rules.type = "string" THEN Val("integer", 1) ELSE Val("string", 1)

\* A row the table holds when the process starts.
StoredRow ==
  [key \in StoreColumns |-> Good(RuleOf(CHOOSE c \in Columns : SnakeCase(c) = key))]

RowAt(value) ==
  IF IsSet(value) /\ value.n \in Ids THEN table[value.n] ELSE NoRow

(***************************************************************************)
(* The values a program passes in.                                         *)
(***************************************************************************)

\* Attribute objects: no column, every column or every column but the primary
\* key given a value of the column's type; one column given a value of
\* another type.
KeyColumns == {c \in Columns : RuleOf(c).primaryKey}
AttributeObjects ==
  { [c \in S |-> Good(RuleOf(c))] : S \in {{}, Columns, Columns \ KeyColumns} }
    \cup { [c \in {b} |-> Bad(RuleOf(b))] : b \in Columns }
    \cup { [c \in {"extra"} |-> Val("string", 1)] }

(***************************************************************************)
(* The calls of the program.                                               *)
(***************************************************************************)
Running == uncaught = ""

\* The instances the program constructed itself with `new`: all but the
\* results of operations and the context-only instances of the static methods.
Constructed ==
  Cardinality({i \in DOMAIN instances :
                 /\ instances[i].hasProperties
                 /\ \A o \in DOMAIN ops : i # ops[o].result /\ i \notin Range(ops[o].results)})

Returned(op, inst, error) == [op |-> op, inst |-> inst, error |-> error]

NewOp(kind, inst, run) ==
  [kind |-> kind, inst |-> inst, pc |-> "transforming", promises |-> run.promises,
   log |-> run.log, payload |-> NoPayload, where |-> Undefined, result |-> 0,
   error |-> "", argument |-> Undefined, results |-> <<>>, raised |-> ""]

\* new Model(attributes)
New(attributes) ==
  /\ Running
  /\ Constructed < MaxNew
  /\ LET made == Construct(attributes, FALSE)
         i == Len(instances) + 1
     IN /\ instances' = Append(instances, made.instance)
        /\ nextTickQueue' = nextTickQueue \o [k \in 1..made.scheduled |-> i]
        /\ last' = Returned("new", i, made.thrown)
  /\ UNCHANGED <<model, uncaught, ops, calls, table, sequence, writes>>

\* The check that the constructor deferred (line 20).  An error thrown from a
\* process.nextTick callback is an uncaught exception: it ends the process.
Tick ==
  /\ Running
  /\ nextTickQueue # <<>>
  /\ LET i == Head(nextTickQueue)
         error == EnsureMinimumConfiguration(instances[i])
     IN /\ instances' = [instances EXCEPT ![i].config =
                                             IF error = "" THEN "ok" ELSE "failed"]
        /\ uncaught' = error
  /\ nextTickQueue' = Tail(nextTickQueue)
  /\ UNCHANGED <<model, ops, calls, table, sequence, last, writes>>

\* instance[key]: the getter of the column (line 51), else the ordinary field.
Read(inst, key) ==
  IF inst.accessors /\ key \in Columns THEN inst.properties.vals[key]
  ELSE Get(inst.fields, key)

\* A write that finds no accessor pair.
WriteWithoutAccessor(inst, key, value) == [inst EXCEPT !.fields[key] = value]

\* instance[key] = value: the setter of the column (line 52), else an
\* ordinary field of the instance.
Write(inst, key, value) ==
  IF inst.accessors /\ key \in Columns
  THEN [inst EXCEPT !.properties = Put(@, key, value)]
  ELSE [inst EXCEPT !.fields[key] = value]

\* instance[column] = value, through the accessor pair of the column (lines 50-53).
AccessorWrite(i, column, value) ==
  /\ Running
  /\ i \in DOMAIN instances
  /\ instances[i].accessors
  /\ writes < MaxWrites
  /\ instances' = [instances EXCEPT ![i] = Write(@, column, value)]
  /\ writes' = writes + 1
  /\ last' = Returned("write", i, "")
  /\ UNCHANGED <<model, nextTickQueue, uncaught, ops, calls, table, sequence>>

\* instance.extra = value, a write to a key that is no column.
FieldWrite(i, value) ==
  /\ Running
  /\ i \in DOMAIN instances
  /\ writes < MaxWrites
  /\ instances' = [instances EXCEPT ![i] = Write(@, "extra", value)]
  /\ writes' = writes + 1
  /\ last' = Returned("write", i, "")
  /\ UNCHANGED <<model, nextTickQueue, uncaught, ops, calls, table, sequence>>

\* instance.validate(): true, or the ValidationError it throws.
ValidateCall(i) ==
  /\ Running
  /\ i \in DOMAIN instances
  /\ instances[i].hasProperties
  /\ LET run == ValidateStep(StartRun(instances[i].properties)) IN
       /\ instances' = [instances EXCEPT ![i].properties = run.properties]
       /\ last' = Returned("validate", i, run.error)
  /\ UNCHANGED <<model, nextTickQueue, uncaught, ops, calls, table, sequence, writes>>

\* instance.setDefaults()
SetDefaultsCall(i) ==
  /\ Running
  /\ i \in DOMAIN instances
  /\ instances[i].hasProperties
  /\ instances' = [instances EXCEPT ![i].properties = SetDefaults(@)]
  /\ last' = Returned("setDefaults", i, "")
  /\ UNCHANGED <<model, nextTickQueue, uncaught, ops, calls, table, sequence, writes>>

\* instance.callTransforms(): its synchronous part (lines 138-147), which
\* returns a promise or throws the TypeError of line 143.
CallTransformsCall(i) ==
  /\ Running
  /\ i \in DOMAIN instances
  /\ instances[i].hasProperties
  /\ Len(ops) < MaxOps
  /\ LET o == Len(ops) + 1
         run == CallTransformsStep(StartRun(instances[i].properties), o)
     IN /\ instances' = [instances EXCEPT ![i].properties = run.properties]
        /\ ops' = IF run.error = "" THEN Append(ops, NewOp("callTransforms", i, run))
                  ELSE ops
        /\ last' = Returned("callTransforms", i, run.error)
  /\ UNCHANGED <<model, nextTickQueue, uncaught, calls, table, sequence, writes>>

\* The synchronous part of save() and of update(): beforeSave() (lines 179, 194).
\* An error that leaves validate() or callTransforms() is thrown to the caller.
StartSave(kind, i) ==
  LET o == Len(ops) + 1
      run == BeforeSave(instances[i].properties, o)
  IN /\ instances' = [instances EXCEPT ![i].properties = run.properties]
     /\ ops' = IF run.error = "" THEN Append(ops, NewOp(kind, i, run)) ELSE ops
     /\ last' = Returned(kind, i, run.error)

Save(i) ==
  /\ Running
  /\ i \in DOMAIN instances
  /\ instances[i].hasProperties
  /\ Len(ops) < MaxOps
  /\ StartSave("save", i)
  /\ UNCHANGED <<model, nextTickQueue, uncaught, calls, table, sequence, writes>>

Update(i) ==
  /\ Running
  /\ i \in DOMAIN instances
  /\ instances[i].hasProperties
  /\ Len(ops) < MaxOps
  /\ StartSave("update", i)
  /\ UNCHANGED <<model, nextTickQueue, uncaught, calls, table, sequence, writes>>

\* Model.create(attributes): new this(attributes).save() (lines 275-277)
Create(attributes) ==
  /\ Running
  /\ Constructed < MaxNew
  /\ Len(ops) < MaxOps
  /\ LET made == Construct(attributes, FALSE)
         i == Len(instances) + 1
         o == Len(ops) + 1
         run == BeforeSave(made.instance.properties, o)
     IN /\ instances' = Append(instances, [made.instance EXCEPT !.properties = run.properties])
        /\ nextTickQueue' = nextTickQueue \o [k \in 1..made.scheduled |-> i]
        /\ ops' = IF run.error = "" THEN Append(ops, NewOp("save", i, run)) ELSE ops
        /\ last' = Returned("create", i, run.error)
  /\ UNCHANGED <<model, uncaught, calls, table, sequence, writes>>

\* new this({ _empty: true }) (lines 245, 263, 286): the instance a static
\* method makes for its table name, its primary key and its knex.
ContextInstance == Construct(EmptyObject.vals, TRUE)
Contexts == {i \in DOMAIN instances : ~instances[i].hasProperties}

\* The primary-key values and the filters the program passes to the static methods.
KeyValues ==
  {Val(IF KeyColumns = {} THEN "integer" ELSE RuleOf(PrimaryKeyOf(model.schema)).type, n) :
     n \in Ids}
WhereObjects ==
  UNION { {Put(EmptyObject, c, Good(RuleOf(c))), Put(EmptyObject, c, Other(RuleOf(c)))} :
            c \in Columns }

\* A destroy() that does not say which row.
DestroyCallWithoutKey(inst, o) ==
  [ op |-> o, kind |-> "delete", table |-> inst.tableName, payload |-> NoPayload,
    returning |-> "", where |-> Undefined ]

\* lines 209-211: knex(table).where(primaryKey, this[primaryKey]).del()
DestroyCall(inst, o) ==
  [ op |-> o, kind |-> "delete", table |-> inst.tableName, payload |-> NoPayload,
    returning |-> "", where |-> Read(inst, inst.primaryKey) ]

\* lines 246-247: knex(table).where(primaryKey, primaryKeyValue)
FindCall(inst, o, value) ==
  [ op |-> o, kind |-> "select", table |-> inst.tableName, payload |-> NoPayload,
    returning |-> "", where |-> value ]

\* lines 264-265: knex(table).where(util.snakeCased(attributes))
WhereCall(inst, o, attributes) ==
  [ op |-> o, kind |-> "selectWhere", table |-> inst.tableName, payload |-> NoPayload,
    returning |-> "", where |-> Undefined, filter |-> SnakeCased(attributes) ]

\* An operation that calls the store at once.
QueryOp(kind, i, call, argument) ==
  [NewOp(kind, i, StartRun(EmptyObject)) EXCEPT
     !.pc = "storing", !.log = <<call.kind>>, !.where = call.where,
     !.argument = argument]

\* The call of the store interface by an instance: instance.knex(...) throws
\* a TypeError when the class did not assign knex.
Query(kind, i, inst, call, argument) ==
  IF inst.knex
  THEN /\ ops' = Append(ops, QueryOp(kind, i, call, argument))
       /\ calls' = Append(calls, call)
       /\ last' = Returned(kind, i, "")
  ELSE /\ last' = Returned(kind, i, "TypeError: instance.knex is not a function")
       /\ UNCHANGED <<ops, calls>>

\* instance.destroy() (lines 208-213)
Destroy(i) ==
  /\ Running
  /\ i \in DOMAIN instances
  /\ instances[i].hasProperties
  /\ Len(ops) < MaxOps
  /\ Query("destroy", i, instances[i], DestroyCall(instances[i], Len(ops) + 1), Undefined)
  /\ UNCHANGED <<model, instances, nextTickQueue, uncaught, table, sequence, writes>>

\* Model.destroy(primaryKeyValue) (lines 285-289): the value is written to
\* the context-only instance, which has no accessor pair, and read back by
\* destroy().
DestroyStatic(value) ==
  /\ Running
  /\ Len(ops) < MaxOps
  /\ Cardinality(Contexts) < MaxOps
  /\ LET made == ContextInstance
         i == Len(instances) + 1
         inst == Write(made.instance, made.instance.primaryKey, value)
     IN /\ instances' = Append(instances, inst)
        /\ nextTickQueue' = nextTickQueue \o [k \in 1..made.scheduled |-> i]
        /\ Query("destroy", i, inst, DestroyCall(inst, Len(ops) + 1), value)
  /\ UNCHANGED <<model, uncaught, table, sequence, writes>>

\* Model.find(primaryKeyValue) (lines 244-254)
Find(value) ==
  /\ Running
  /\ Len(ops) < MaxOps
  /\ Cardinality(Contexts) < MaxOps
  /\ LET made == ContextInstance
         i == Len(instances) + 1
     IN /\ instances' = Append(instances, made.instance)
        /\ nextTickQueue' = nextTickQueue \o [k \in 1..made.scheduled |-> i]
        /\ Query("find", i, made.instance, FindCall(made.instance, Len(ops) + 1, value), value)
  /\ UNCHANGED <<model, uncaught, table, sequence, writes>>

\* Model.where(attributes) (lines 262-267)
Where(attributes) ==
  /\ Running
  /\ Len(ops) < MaxOps
  /\ Cardinality(Contexts) < MaxOps
  /\ LET made == ContextInstance
         i == Len(instances) + 1
     IN /\ instances' = Append(instances, made.instance)
        /\ nextTickQueue' = nextTickQueue \o [k \in 1..made.scheduled |-> i]
        /\ Query("where", i, made.instance,
                 WhereCall(made.instance, Len(ops) + 1, attributes), attributes)
  /\ UNCHANGED <<model, uncaught, table, sequence, writes>>

(***************************************************************************)
(* The continuations.  They run from the event loop, and the event loop    *)
(* runs the process.nextTick callbacks first.                              *)
(***************************************************************************)
Idle == Running /\ nextTickQueue = <<>>

\* The promise a transform returned resolves.
ResolveTransform(o, column) ==
  /\ Idle
  /\ o \in DOMAIN ops
  /\ ops[o].pc = "transforming"
  /\ ops[o].promises[column].state = "pending"
  /\ ops' = [ops EXCEPT ![o].promises[column].state = "resolved"]
  /\ UNCHANGED <<model, instances, nextTickQueue, uncaught, calls, table, sequence, last, writes>>

\* The promise a transform returned rejects: Promise.props (line 150) rejects
\* with it, its callback and the callback of save() or update() never run.
RejectTransform(o, column) ==
  /\ Idle
  /\ o \in DOMAIN ops
  /\ ops[o].pc = "transforming"
  /\ ops[o].promises[column].state = "pending"
  /\ ops' = [ops EXCEPT ![o].promises[column].state = "rejected",
                        ![o].pc = "rejected",
                        ![o].error = "Error: transform rejected"]
  /\ UNCHANGED <<model, instances, nextTickQueue, uncaught, calls, table, sequence, last, writes>>

\* A continuation that does not wait for the promises of the transforms.
AllResolvedNoWait(promises) == TRUE

\* Promise.props(promises) (line 150) resolves once every promise has resolved.
AllResolved(promises) == \A c \in Columns : promises[c].state # "pending"
AnyPromise(promises) == \E c \in Columns : promises[c].state # "none"

\* The properties once the promise of callTransforms() is resolved: the
\* callback of Promise.props (lines 150-154) ran if there was a promise.
AfterTransforms(obj, promises) ==
  IF AnyPromise(promises) THEN WriteBack(obj, promises) ELSE obj

\* A store call that always addresses the first row.
StoreCallFirstRow(kind, inst, o) ==
  [ op |-> o,
    kind |-> IF kind = "save" THEN "insert" ELSE "update",
    table |-> inst.tableName,
    payload |-> SnakeCased(inst.properties),
    returning |-> "*",
    where |-> IF kind = "save" THEN Undefined
              ELSE Val(RuleOf(inst.primaryKey).type, 1) ]

\* The store call of save() (lines 180-184) and of update() (lines 195-199).
StoreCall(kind, inst, o) ==
  [ op |-> o,
    kind |-> IF kind = "save" THEN "insert" ELSE "update",
    table |-> inst.tableName,
    payload |-> SnakeCased(inst.properties),
    returning |-> "*",
    where |-> IF kind = "save" THEN Undefined ELSE inst.properties.vals[inst.primaryKey] ]

\* The promise of callTransforms() resolves: the callback of Promise.props
\* runs if there was a promise, then the callback of save() or update(),
\* which calls the store.  Both are continuations of one promise and run in
\* one turn of the promise queue.
Continue(o) ==
  /\ Idle
  /\ o \in DOMAIN ops
  /\ ops[o].pc = "transforming"
  /\ AllResolved(ops[o].promises)
  /\ LET i == ops[o].inst
         written == AfterTransforms(instances[i].properties, ops[o].promises)
         call == StoreCall(ops[o].kind, [instances[i] EXCEPT !.properties = written], o)
     IN /\ instances' = [instances EXCEPT ![i].properties = written]
        /\ IF ops[o].kind = "callTransforms"
           THEN /\ ops' = [ops EXCEPT ![o].pc = "resolved"]
                /\ UNCHANGED calls
           ELSE /\ calls' = Append(calls, call)
                /\ ops' = [ops EXCEPT ![o].pc = "storing",
                                      ![o].log = Append(@, call.kind),
                                      ![o].payload = call.payload,
                                      ![o].where = call.where]
  /\ UNCHANGED <<model, nextTickQueue, uncaught, table, sequence, last, writes>>

\* new this.constructor(results[0]) (lines 184, 199): results[0] is undefined
\* when the store returned no row, and the constructor then reads {}.
ResultInstance(results) ==
  Construct(IF Len(results) = 0 THEN NoRow ELSE results[1], FALSE)

\* A construction from a row that validates what it read.
RowInstanceValidated(row) ==
  [Construct(row, FALSE) EXCEPT !.thrown = Validate(Construct(row, FALSE).instance.properties)]

\* new this(result) in find() and where() (lines 250, 266): the constructor
\* reads the row, nothing validates it.
RowInstance(row) == Construct(row, FALSE)

\* The rows of the table that a where(object) clause selects, by primary key.
Matching(filter) ==
  LET ids == SelectSeq([id \in Ids |-> id],
                       LAMBDA id : /\ table[id] # NoRow
                                   /\ \A key \in DOMAIN filter :
                                        Get(table[id], key) = filter[key])
  IN [k \in DOMAIN ids |-> table[ids[k]]]

\* What the store does with a call: the rows it returns, the table and the
\* sequence afterwards, the error it raises.
StoreResult(call, primaryKey) ==
  IF call.kind = "insert"
  THEN LET given == Get(call.payload, SnakeCase(primaryKey))
           row == InsertedRow(call.payload, primaryKey)
           id == row[SnakeCase(primaryKey)].n
           next == IF IsSet(given) THEN sequence ELSE sequence + 1
       IN IF table[id] # NoRow
          THEN [error |-> "StoreError: duplicate key", rows |-> <<>>,
                table |-> table, sequence |-> next]
          ELSE [error |-> "", rows |-> <<row>>,
                table |-> [table EXCEPT ![id] = row], sequence |-> next]
  ELSE IF call.kind = "update"
  THEN LET old == RowAt(call.where)
           row == UpdatedRow(old, call.payload)
       IN IF old = NoRow
          THEN [error |-> "", rows |-> <<>>, table |-> table, sequence |-> sequence]
          ELSE [error |-> "", rows |-> <<row>>,
                table |-> [table EXCEPT ![call.where.n] = row], sequence |-> sequence]
  ELSE IF call.kind = "delete"
  THEN [error |-> "", rows |-> <<>>, sequence |-> sequence,
        table |-> IF RowAt(call.where) = NoRow THEN table
                  ELSE [table EXCEPT ![call.where.n] = NoRow]]
  ELSE IF call.kind = "select"
  THEN [error |-> "", table |-> table, sequence |-> sequence,
        rows |-> IF RowAt(call.where) = NoRow THEN <<>> ELSE <<RowAt(call.where)>>]
  ELSE [error |-> "", table |-> table, sequence |-> sequence,
        rows |-> Matching(call.filter)]

\* An error handler that replaces the store's error.
PropagateWrapped(error) == "Error: the operation failed"

\* lines 178-213, 244-267: no operation has a catch handler; the rejection
\* of the store's promise is the rejection of the operation's promise.
Propagate(error) == error

\* The instances the callback of the store call constructs from the rows:
\* lines 184, 199 (the first row, or undefined), line 212 (none),
\* lines 249-252 (the first row if any), line 266 (every row).
Built(kind, rows) ==
  IF kind \in {"save", "update"} THEN << ResultInstance(rows) >>
  ELSE IF kind = "destroy" THEN << >>
  ELSE IF kind = "find"
  THEN (IF Len(rows) = 0 THEN << >> ELSE << RowInstance(rows[1]) >>)
  ELSE [k \in DOMAIN rows |-> RowInstance(rows[k])]

\* The store answers the call of an operation: the operation rejects with
\* the store's error, or its callback runs and the operation resolves.
StoreReply(o) ==
  /\ Idle
  /\ o \in DOMAIN ops
  /\ ops[o].pc = "storing"
  /\ LET inst == instances[ops[o].inst]
         call == calls[CHOOSE k \in DOMAIN calls : calls[k].op = o]
         given == Get(call.payload, SnakeCase(inst.primaryKey))
         done == StoreResult(call, inst.primaryKey)
         built == Built(ops[o].kind, done.rows)
         thrown == {k \in DOMAIN built : built[k].thrown # ""}
         made == [k \in DOMAIN built |-> Len(instances) + k]
     IN /\ call.kind = "insert" /\ ~IsSet(given) => sequence \in Ids
        /\ table' = done.table
        /\ sequence' = done.sequence
        /\ IF done.error # ""
           THEN /\ ops' = [ops EXCEPT ![o].pc = "rejected", ![o].raised = done.error,
                                      ![o].error = Propagate(done.error)]
                /\ UNCHANGED <<instances, nextTickQueue>>
           ELSE IF thrown # {}
           THEN /\ ops' = [ops EXCEPT ![o].pc = "rejected",
                                      ![o].error = built[CHOOSE k \in thrown : TRUE].thrown]
                /\ UNCHANGED <<instances, nextTickQueue>>
           ELSE /\ ops' = [ops EXCEPT ![o].pc = "resolved",
                                      ![o].result = IF ops[o].kind = "where" \/ Len(built) = 0
                                                    THEN 0 ELSE made[1],
                                      ![o].results = IF ops[o].kind = "where"
                                                     THEN made ELSE << >>]
                /\ instances' = instances \o [k \in DOMAIN built |-> built[k].instance]
                /\ nextTickQueue' =
                     nextTickQueue \o
                       SelectSeq(made, LAMBDA r : built[r - Len(instances)].scheduled = 1)
  /\ UNCHANGED <<model, uncaught, calls, last, writes>>

\* The store interface raises an error instead of answering the call.
StoreError(o) ==
  /\ Idle
  /\ o \in DOMAIN ops
  /\ ops[o].pc = "storing"
  /\ ops' = [ops EXCEPT ![o].pc = "rejected",
                        ![o].raised = "StoreError: connection lost",
                        ![o].error = Propagate("StoreError: connection lost")]
  /\ UNCHANGED <<model, instances, nextTickQueue, uncaught, calls, table, sequence, last, writes>>

(***************************************************************************)
(* The specification.                                                      *)
(***************************************************************************)
ModelClasses == {m @@ [knex |-> k] : m \in Models, k \in BOOLEAN}

Init ==
  /\ model \in ModelClasses
  /\ instances = <<>>
  /\ nextTickQueue = <<>>
  /\ uncaught = ""
  /\ ops = <<>>
  /\ calls = <<>>
  /\ \E rows \in 0..1 :
       /\ table = [id \in Ids |-> IF id <= rows THEN StoredRow ELSE NoRow]
       /\ sequence = rows + 1
  /\ writes = 0
  /\ last = Returned("", 0, "")

Next ==
  \/ \E attributes \in AttributeObjects : New(attributes)
  \/ \E attributes \in AttributeObjects : Create(attributes)
  \/ Tick
  \/ \E i \in DOMAIN instances, c \in Columns :
       \E value \in {Other(RuleOf(c)), Null} : AccessorWrite(i, c, value)
  \/ \E i \in DOMAIN instances : FieldWrite(i, Val("string", 1))
  \/ \E i \in DOMAIN instances : ValidateCall(i)
  \/ \E i \in DOMAIN instances : SetDefaultsCall(i)
  \/ \E i \in DOMAIN instances : CallTransformsCall(i)
  \/ \E i \in DOMAIN instances : Save(i)
  \/ \E i \in DOMAIN instances : Update(i)
  \/ \E o \in DOMAIN ops, c \in Columns : ResolveTransform(o, c)
  \/ \E o \in DOMAIN ops, c \in Columns : RejectTransform(o, c)
  \/ \E o \in DOMAIN ops : Continue(o)
  \/ \E o \in DOMAIN ops : StoreReply(o)
  \/ \E o \in DOMAIN ops : StoreError(o)
  \/ \E i \in DOMAIN instances : Destroy(i)
  \/ \E value \in KeyValues : DestroyStatic(value)
  \/ \E value \in KeyValues : Find(value)
  \/ \E attributes \in WhereObjects : Where(attributes)

Spec == Init /\ [][Next]_vars

\* The attribute engine alone: construction, the accessors and the three
\* steps of the pipeline called one by one, without the store.
NextInstance ==
  \/ \E attributes \in AttributeObjects : New(attributes)
  \/ Tick
  \/ \E i \in DOMAIN instances, c \in Columns :
       \E value \in {Other(RuleOf(c)), Null} : AccessorWrite(i, c, value)
  \/ \E i \in DOMAIN instances : FieldWrite(i, Val("string", 1))
  \/ \E i \in DOMAIN instances : ValidateCall(i)
  \/ \E i \in DOMAIN instances : SetDefaultsCall(i)
  \/ \E i \in DOMAIN instances : CallTransformsCall(i)
  \/ \E o \in DOMAIN ops, c \in Columns : ResolveTransform(o, c)
  \/ \E o \in DOMAIN ops, c \in Columns : RejectTransform(o, c)
  \/ \E o \in DOMAIN ops : Continue(o)

SpecInstance == Init /\ [][NextInstance]_vars

\* The persistence gateway: construction, the accessors, save(), update()
\* and create() with their continuations and the store.
NextGateway ==
  \/ \E attributes \in AttributeObjects : New(attributes)
  \/ \E attributes \in AttributeObjects : Create(attributes)
  \/ Tick
  \/ \E i \in DOMAIN instances, c \in Columns :
       \E value \in {Other(RuleOf(c)), Null} : AccessorWrite(i, c, value)
  \/ \E i \in DOMAIN instances : Save(i)
  \/ \E i \in DOMAIN instances : Update(i)
  \/ \E o \in DOMAIN ops, c \in Columns : ResolveTransform(o, c)
  \/ \E o \in DOMAIN ops, c \in Columns : RejectTransform(o, c)
  \/ \E o \in DOMAIN ops : Continue(o)
  \/ \E o \in DOMAIN ops : StoreReply(o)

SpecGateway == Init /\ [][NextGateway]_vars

\* The queries: the static methods and destroy(), with create() and update()
\* for the rows they find, and a store that may fail.
NextQueries ==
  \/ \E attributes \in AttributeObjects : Create(attributes)
  \/ Tick
  \/ \E i \in DOMAIN instances : Update(i)
  \/ \E i \in DOMAIN instances : Destroy(i)
  \/ \E value \in KeyValues : DestroyStatic(value)
  \/ \E value \in KeyValues : Find(value)
  \/ \E attributes \in WhereObjects : Where(attributes)
  \/ \E o \in DOMAIN ops, c \in Columns : ResolveTransform(o, c)
  \/ \E o \in DOMAIN ops, c \in Columns : RejectTransform(o, c)
  \/ \E o \in DOMAIN ops : Continue(o)
  \/ \E o \in DOMAIN ops : StoreReply(o)
  \/ \E o \in DOMAIN ops : StoreError(o)

SpecQueries == Init /\ [][NextQueries]_vars

\* Subclassing: the classes of the subclassing test, constructed from the
\* attributes of that test, with the synchronous calls of the engine.
SubclassingAttributes ==
  { [key \in S |-> IF key = "id" THEN Val("integer", 1) ELSE Val("string", 1)] :
      S \in {{"id", "foo"}, {"foo"}} }

InitSubclassing ==
  /\ model \in {m @@ [knex |-> k] : m \in SubclassingModels, k \in BOOLEAN}
  /\ instances = <<>>
  /\ nextTickQueue = <<>>
  /\ uncaught = ""
  /\ ops = <<>>
  /\ calls = <<>>
  /\ table = [id \in Ids |-> NoRow]
  /\ sequence = 1
  /\ writes = 0
  /\ last = Returned("", 0, "")

NextSubclassing ==
  \/ \E attributes \in SubclassingAttributes : New(attributes)
  \/ Tick
  \/ \E i \in DOMAIN instances, c \in Columns :
       \E value \in {Other(RuleOf(c)), Null} : AccessorWrite(i, c, value)
  \/ \E i \in DOMAIN instances : FieldWrite(i, Val("string", 1))
  \/ \E i \in DOMAIN instances : ValidateCall(i)
  \/ \E i \in DOMAIN instances : SetDefaultsCall(i)

SpecSubclassing == InitSubclassing /\ [][NextSubclassing]_vars

(***************************************************************************)
(* The claims.                                                             *)
(***************************************************************************)
Saves == {o \in DOMAIN ops : ops[o].kind \in {"save", "update"}}
Called(o) == \E k \in DOMAIN calls : calls[k].op = o
StoreKind(o) == IF ops[o].kind = "save" THEN "insert" ELSE "update"

\* C1: save() and update() run validate(), then setDefaults(), then
\* callTransforms(), and call the store only after every promise of a
\* transform has resolved: the payload holds no promise, every column with an
\* asynchronous transform holds the resolved result of its transform, every
\* column with a synchronous transform holds a transformed value (or a value
\* the caller wrote after the call), and every column whose default
\* setDefaults() writes holds a value.
C1_PipelineOrder ==
  \A o \in Saves :
    /\ SubSeq(ops[o].log, 1, 3) = <<"validate", "setDefaults", "callTransforms">>
    /\ Called(o) <=> Len(ops[o].log) = 4
    /\ Called(o) =>
         /\ ops[o].log[4] = StoreKind(o)
         /\ \A c \in Columns : ops[o].promises[c].state # "pending"
         /\ \A key \in DOMAIN ops[o].payload : ~IsPromise(ops[o].payload[key])
         /\ \A c \in Columns :
              LET value == Get(ops[o].payload, SnakeCase(c)) IN
              /\ ops[o].promises[c].state = "resolved" =>
                   value = TransformValue(RuleOf(c), ops[o].promises[c].input)
              /\ RuleOf(c).transform = "sync" =>
                   value.x >= 1 \/ value \in {Other(RuleOf(c)), Null}
              /\ DefaultIsTruthy(RuleOf(c)) => ~IsUndefined(value)

\* C1 witness: a save() whose asynchronous transform resolved called the
\* store with the transformed value and with the default of another column.
C1_Witness ==
  \E o \in Saves :
    /\ ops[o].kind = "save"
    /\ ops[o].pc = "storing"
    /\ \E c \in Columns : ops[o].promises[c].state = "resolved" /\ ops[o].payload[SnakeCase(c)].x = 1
    /\ \E c \in Columns : /\ RuleOf(c).defaultValue.kind = "function"
                          /\ ops[o].payload[SnakeCase(c)] = RuleOf(c).defaultValue.value

ConfigurationErrors ==
  { "ConfigurationError: Knex has not been configured.",
    "ConfigurationError: A primary key must be defined." }
ValidationErrors ==
  UNION { { "ValidationError: " \o c \o " cannot be null",
            "ValidationError: " \o c \o " must be of type " \o RuleOf(c).type,
            "ValidationError: column validation failed for " \o c } : c \in Columns }

\* C2: a save(), update() or create() whose validation fails throws a
\* ValidationError and changes nothing else: the properties stay as they were
\* (as constructed, for create()), no operation is started, no call reaches
\* the store and the table is left alone.
C2_ValidationHasNoEffect ==
  [][ (last' # last /\ last'.op \in {"save", "update", "create"}
                     /\ last'.error \in ValidationErrors) =>
        /\ ops' = ops /\ calls' = calls /\ table' = table /\ sequence' = sequence
        /\ last'.op # "create" => instances' = instances
        /\ last'.op = "create" =>
             \E a \in AttributeObjects :
               instances' = Append(instances, Construct(a, FALSE).instance) ]_vars

\* C2 witness: a save() threw on an instance that has a column with a default
\* and no value.
C2_Witness ==
  /\ last.op = "save"
  /\ last.error \in ValidationErrors
  /\ \E c \in Columns : /\ DefaultIsTruthy(RuleOf(c))
                        /\ IsUndefined(instances[last.inst].properties.vals[c])

\* C3: `new` never throws a ConfigurationError; every construction leaves
\* exactly one deferred check, which runs after the constructor chain has
\* returned and so sees the knex the subclass constructor assigned; the check
\* passes when knex and the primary key are there and raises a
\* ConfigurationError when one of them is missing.
C3_DeferredCheck ==
  /\ last.op \in {"new", "create"} => last.error \notin ConfigurationErrors
  /\ last.op = "new" => last.error = ""
  /\ \A i \in DOMAIN instances :
       /\ Cardinality({k \in DOMAIN nextTickQueue : nextTickQueue[k] = i})
            = IF instances[i].config = "scheduled" THEN 1 ELSE 0
       /\ instances[i].config = "ok" <=>
            /\ instances[i].config # "scheduled"
            /\ model.knex
            /\ instances[i].primaryKey # ""
       /\ instances[i].config = "failed" => uncaught \in ConfigurationErrors
  /\ uncaught # "" => \E i \in DOMAIN instances : instances[i].config = "failed"

\* C3 witness: two instances of a class whose constructor assigns knex after
\* super() passed their checks.
C3_Witness ==
  /\ model.knex
  /\ Cardinality({i \in DOMAIN instances : instances[i].config = "ok"}) >= 2

PrimaryKeyRules == Cardinality({c \in Columns : RuleOf(c).primaryKey})

\* C4: with knex configured the deferred check passes for every schema with
\* exactly one primaryKey rule, and it raises a ConfigurationError for every
\* schema with none or with more than one.
C4_ExactlyOnePrimaryKey ==
  \A i \in DOMAIN instances :
    instances[i].config # "scheduled" =>
      /\ PrimaryKeyRules = 1 /\ model.knex => instances[i].config = "ok"
      /\ PrimaryKeyRules # 1 => instances[i].config = "failed"

ErrorsNaming(c) ==
  { "ValidationError: " \o c \o " cannot be null",
    "ValidationError: " \o c \o " must be of type " \o RuleOf(c).type,
    "ValidationError: column validation failed for " \o c }
Required(c) == RuleOf(c).notNull /\ RuleOf(c).defaultValue.kind = "none"
Defaulted(c) == RuleOf(c).notNull /\ RuleOf(c).defaultValue.kind # "none"
DeclaredBefore(b, c) ==
  \E j, k \in DOMAIN model.schema :
    j < k /\ model.schema[j].column = b /\ model.schema[k].column = c

\* C5: for every notNull column with a defaultValue of any value, validate()
\* with the column unset does not fail because of that column, and
\* setDefaults() on an instance with the column unset leaves it populated.
C5_DefaultPopulated ==
  [][ /\ (last' # last /\ last'.op = "validate") =>
           \A c \in Columns :
             Defaulted(c) /\ IsUndefined(instances[last'.inst].properties.vals[c])
               => last'.error \notin ErrorsNaming(c)
      /\ (last' # last /\ last'.op = "setDefaults") =>
           \A c \in Columns :
             Defaulted(c) /\ IsUndefined(instances[last'.inst].properties.vals[c])
               => ~IsUndefined(instances'[last'.inst].properties.vals[c]) ]_vars

\* C6 as stated: validate() on an instance whose value for a notNull column
\* without defaultValue is unset or null fails with a ValidationError whose
\* message names that column.
C6_NamesTheColumn ==
  [][ (last' # last /\ last'.op = "validate") =>
        \A c \in Columns :
          /\ Required(c)
          /\ ~IsSet(instances[last'.inst].properties.vals[c])
          => last'.error = "ValidationError: " \o c \o " cannot be null" ]_vars

\* C6: validate() on an instance whose value for a notNull column without
\* defaultValue is unset or null always fails with a ValidationError; its
\* message names that column unless a column declared before it fails, and
\* then it names that earlier column.
C6_NotNullFails ==
  [][ (last' # last /\ last'.op = "validate") =>
        \A c \in Columns :
          /\ Required(c)
          /\ ~IsSet(instances[last'.inst].properties.vals[c])
          => \/ last'.error = "ValidationError: " \o c \o " cannot be null"
             \/ \E b \in Columns : DeclaredBefore(b, c) /\ last'.error \in ErrorsNaming(b) ]_vars

\* C6 witness: validate() threw for a notNull column that holds null.
C6_Witness ==
  /\ last.op = "validate"
  /\ \E c \in Columns :
       /\ Required(c)
       /\ IsNull(instances[last.inst].properties.vals[c])
       /\ last.error = "ValidationError: " \o c \o " cannot be null"

CallsOf(o) == {k \in DOMAIN calls : calls[k].op = o}
KeyOf(o) == instances[ops[o].inst].primaryKey

\* The payload holds the properties under their snake_cased keys.
StorageCased(payload, own) ==
  /\ \A c \in Range(own.keys) : SnakeCase(c) \in DOMAIN payload
  /\ \A key \in DOMAIN payload :
       \E c \in Range(own.keys) : SnakeCase(c) = key /\ payload[key] = own.vals[c]

\* The instance is of the model class and its properties are the row's.
Reflects(inst, row) ==
  /\ inst.tableName = Tableize(model.name)
  /\ inst.primaryKey = PrimaryKeyOf(model.schema)
  /\ inst.knex = model.knex
  /\ inst.accessors
  /\ \A c \in Columns : inst.properties.vals[c] = row[SnakeCase(c)]

\* C8: save() on a valid instance issues exactly one insert into the model's
\* table, with the properties under their storage-cased keys, and resolves to
\* an instance of the same class whose properties are the inserted row's,
\* the primary key the store assigned among them.
C8_SaveInsertsRow ==
  [][ \A o \in DOMAIN ops : ops[o].kind = "save" =>
        /\ Cardinality(CallsOf(o)) = IF Called(o) THEN 1 ELSE 0
        /\ (ops[o].pc = "transforming" /\ ops'[o].pc = "storing") =>
             LET call == calls'[Len(calls')] IN
             /\ Len(calls') = Len(calls) + 1
             /\ call.op = o /\ call.kind = "insert" /\ call.returning = "*"
             /\ call.table = Tableize(model.name)
             /\ StorageCased(call.payload, instances'[ops[o].inst].properties)
        /\ (ops[o].pc = "storing" /\ ops'[o].pc = "resolved") =>
             LET key == SnakeCase(KeyOf(o))
                 given == Get(ops[o].payload, key)
                 made == instances'[ops'[o].result]
                 id == made.properties.vals[KeyOf(o)]
             IN /\ calls' = calls
                /\ Len(instances') = Len(instances) + 1
                /\ IsSet(id) /\ id.n \in Ids
                /\ table[id.n] = NoRow
                /\ \A other \in Ids \ {id.n} : table'[other] = table[other]
                /\ Reflects(made, table'[id.n])
                /\ id = IF IsSet(given) THEN given
                        ELSE Val(RuleOf(KeyOf(o)).type, sequence)
                /\ \A k \in StoreColumns \ {key} :
                     table'[id.n][k] = IF IsUndefined(Get(ops[o].payload, k)) THEN Null
                                       ELSE ops[o].payload[k] ]_vars

\* C8 witness: a save() without a primary key resolved to an instance that
\* has the key the store assigned and the name that was saved.
C8_Witness ==
  \E o \in DOMAIN ops :
    /\ ops[o].kind = "save" /\ ops[o].pc = "resolved"
    /\ ~IsSet(Get(ops[o].payload, SnakeCase(KeyOf(o))))
    /\ IsSet(instances[ops[o].result].properties.vals[KeyOf(o)])
    /\ \E c \in Columns \ {KeyOf(o)} :
         /\ IsSet(instances[ops[o].result].properties.vals[c])
         /\ SnakeCase(c) # c

\* C9: once save() has resolved on an instance that had no primary-key
\* value, that instance has the primary key the store assigned.
C9_SaveUpdatesInstance ==
  \A o \in DOMAIN ops :
    /\ ops[o].kind = "save" /\ ops[o].pc = "resolved"
    /\ ~IsSet(Get(ops[o].payload, SnakeCase(KeyOf(o))))
    => IsSet(instances[ops[o].inst].properties.vals[KeyOf(o)])

\* C10: update() runs the pipeline, then issues one update of the model's
\* table addressed at the instance's current primary-key value with the
\* storage-cased current properties; the store changes that row alone, and
\* the operation resolves to an instance whose properties are the refreshed
\* row's (no row changes when none has that key).
C10_UpdateRefreshesRow ==
  [][ \A o \in DOMAIN ops : ops[o].kind = "update" =>
        /\ SubSeq(ops[o].log, 1, 3) = <<"validate", "setDefaults", "callTransforms">>
        /\ Cardinality(CallsOf(o)) = IF Called(o) THEN 1 ELSE 0
        /\ (ops[o].pc = "transforming" /\ ops'[o].pc = "storing") =>
             LET call == calls'[Len(calls')]
                 own == instances'[ops[o].inst].properties
             IN /\ Len(calls') = Len(calls) + 1
                /\ call.op = o /\ call.kind = "update" /\ call.returning = "*"
                /\ call.table = Tableize(model.name)
                /\ call.where = own.vals[KeyOf(o)]
                /\ StorageCased(call.payload, own)
        /\ (ops[o].pc = "storing" /\ ops'[o].pc = "resolved") =>
             LET where == ops[o].where
                 hit == {id \in Ids : IsSet(where) /\ where.n = id /\ table[id] # NoRow}
             IN /\ \A id \in Ids \ hit : table'[id] = table[id]
                /\ \A id \in hit :
                     /\ Reflects(instances'[ops'[o].result], table'[id])
                     /\ \A k \in StoreColumns :
                          table'[id][k] = IF IsUndefined(Get(ops[o].payload, k))
                                          THEN table[id][k] ELSE ops[o].payload[k] ]_vars

\* C10 witness: an update() changed a stored row and resolved to an instance
\* with the values of that row.
C10_Witness ==
  \E o \in DOMAIN ops :
    /\ ops[o].kind = "update" /\ ops[o].pc = "resolved"
    /\ IsSet(ops[o].where) /\ ops[o].where.n \in Ids
    /\ table[ops[o].where.n] \notin {NoRow, StoredRow}
    /\ Reflects(instances[ops[o].result], table[ops[o].where.n])

\* C14: in every reachable state of a normally constructed instance every
\* key of the properties is a schema column and every column has its accessor
\* pair (a read returns properties[column], no column is an ordinary field);
\* a write to a column sets properties[column] and nothing else, a write to a
\* key that is no column sets an ordinary field and leaves the properties.
C14_PropertiesAreColumns ==
  [][ \A i \in DOMAIN instances' :
        LET new == instances'[i] IN
        new.hasProperties =>
          /\ new.accessors
          /\ Range(new.properties.keys) \subseteq Columns
          /\ \A c \in Columns : /\ IsUndefined(new.fields[c])
                                /\ Read(new, c) = new.properties.vals[c]
          /\ (i \in DOMAIN instances /\ writes' # writes /\ last'.inst = i) =>
               LET old == instances[i] IN
               \/ /\ new.fields = old.fields
                  /\ \E c \in Columns :
                       /\ c \in Range(new.properties.keys)
                       /\ \A b \in Columns \ {c} :
                            new.properties.vals[b] = old.properties.vals[b]
               \/ /\ new.properties = old.properties
                  /\ IsSet(new.fields["extra"]) ]_vars

\* C14 witness: an instance built from attributes was written at a key that
\* is no column.
C14_Witness ==
  \E i \in DOMAIN instances :
    /\ instances[i].hasProperties
    /\ instances[i].properties.keys # <<>>
    /\ IsSet(instances[i].fields["extra"])
    /\ "extra" \notin Range(instances[i].properties.keys)

\* C12: the properties of an instance never hold a partial state of the
\* pipeline that a caller can observe: no column holds a pending value
\* while callTransforms() runs, after it resolved or after a transform
\* rejected.
C12_NoPartialState ==
  \A i \in DOMAIN instances :
    \A c \in Columns : ~IsPromise(instances[i].properties.vals[c])

\* C13: callTransforms() returns a promise for every schema and state of the
\* properties, and when that promise resolves every column with a transform
\* that returned a promise holds the resolved result of the transform applied
\* to the value the column held at the call, the other columns unchanged by
\* the resolution.
C13_TransformsApplied ==
  [][ /\ (last' # last /\ last'.op = "callTransforms") =>
           /\ last'.error = ""
           /\ Len(ops') = Len(ops) + 1
           /\ ops'[Len(ops')].kind = "callTransforms"
           /\ \A c \in Columns :
                LET old == instances[last'.inst].properties.vals[c]
                    new == instances'[last'.inst].properties.vals[c]
                IN /\ RuleOf(c).transform = "none" => new = old
                   /\ RuleOf(c).transform = "sync" => new = TransformValue(RuleOf(c), old)
      /\ \A o \in DOMAIN ops :
           (ops[o].kind = "callTransforms" /\ ops[o].pc = "transforming"
              /\ ops'[o].pc = "resolved") =>
             \A c \in Columns :
               LET old == instances[ops[o].inst].properties.vals[c]
                   new == instances'[ops[o].inst].properties.vals[c]
               IN IF RuleOf(c).transform = "async"
                  THEN new = TransformValue(RuleOf(c), ops[o].promises[c].input)
                  ELSE new = old ]_vars

\* A value of the declared type: a whole number, a text (a uuid is a text),
\* true or false, a date object, a text in the RFC-4122 form.
OfType(type, v) == v.t = type \/ (type = "string" /\ v.t = "uuid")
TypeError(c) == "ValidationError: " \o c \o " must be of type " \o RuleOf(c).type
CustomError(c) == "ValidationError: column validation failed for " \o c
Stored(i, c) == instances[i].properties.vals[c]

\* C15 as stated: validate() fails with the ValidationError that names the
\* column and its type exactly when the value of a column that is set, not
\* null and not marked auto is not of the declared type.
C15_TypeErrorExactly ==
  [][ (last' # last /\ last'.op = "validate") =>
        \A c \in Columns :
          IsSet(Stored(last'.inst, c)) /\ ~RuleOf(c).auto =>
            (last'.error = TypeError(c) <=> ~OfType(RuleOf(c).type, Stored(last'.inst, c))) ]_vars

\* C15: for a column whose value is set, not null and not marked auto,
\* validate() fails when the value is not of the declared type, with the
\* ValidationError that names the column and its type unless a column
\* declared before it fails first; a value of the declared type, and any
\* value of a column marked auto, never gives that error.
C15_TypeChecked ==
  [][ (last' # last /\ last'.op = "validate") =>
        \A c \in Columns :
          LET value == Stored(last'.inst, c) IN
          /\ (IsSet(value) /\ ~RuleOf(c).auto /\ ~OfType(RuleOf(c).type, value)) =>
               \/ last'.error = TypeError(c)
               \/ \E b \in Columns : DeclaredBefore(b, c) /\ last'.error \in ErrorsNaming(b)
          /\ (IsSet(value) /\ (RuleOf(c).auto \/ OfType(RuleOf(c).type, value))) =>
               last'.error # TypeError(c) ]_vars

\* C15 witness: validate() threw the type error of a column that is not the
\* first of its schema.
C15_Witness ==
  /\ last.op = "validate"
  /\ \E b, c \in Columns :
       /\ DeclaredBefore(b, c)
       /\ last.error = TypeError(c)
       /\ IsSet(Stored(last.inst, c))
       /\ ~OfType(RuleOf(c).type, Stored(last.inst, c))

\* The value validate() checks: the stored one, the default when it is unset.
Checked(i, c) ==
  IF IsUndefined(Stored(i, c)) THEN RuleOf(c).defaultValue.value ELSE Stored(i, c)

\* C16: validate() fails with the custom violation of a column only when
\* the column has a predicate, its value (or default) is not undefined and
\* the predicate is falsy for that value; it throws one violation, that of
\* the first column in declaration order that has one, and so the custom
\* violation of a column whenever no column before it fails and the column
\* passes its notNull and type checks.
C16_CustomPredicate ==
  [][ (last' # last /\ last'.op = "validate") =>
        LET i == last'.inst
            own == instances[i].properties
            failing == {c \in Columns : ValidateColumn(RuleOf(c), own) # ""}
        IN /\ \A c \in Columns :
                last'.error = CustomError(c) =>
                  /\ RuleOf(c).validate # "none"
                  /\ ~IsUndefined(Checked(i, c))
                  /\ ~Predicate(RuleOf(c).validate, Checked(i, c))
           /\ \A c \in Columns :
                ( /\ RuleOf(c).validate # "none"
                  /\ ~IsUndefined(Checked(i, c))
                  /\ ~Predicate(RuleOf(c).validate, Checked(i, c))
                  /\ ~(RuleOf(c).notNull /\ IsNull(Checked(i, c)))
                  /\ (IsNull(Checked(i, c)) \/ RuleOf(c).auto
                        \/ OfType(RuleOf(c).type, Checked(i, c)))
                  /\ \A b \in failing : ~DeclaredBefore(b, c) )
                => last'.error = CustomError(c)
           /\ last'.error = "" <=> failing = {}
           /\ \A c \in failing :
                (\A b \in failing : ~DeclaredBefore(b, c)) =>
                  last'.error = "ValidationError: " \o ValidateColumn(RuleOf(c), own) ]_vars

\* C16 witness: validate() threw the custom violation of a column.
C16_Witness ==
  /\ last.op = "validate"
  /\ \E c \in Columns :
       /\ last.error = CustomError(c)
       /\ ~IsUndefined(Stored(last.inst, c))

\* C17: for every instance, a new instance of the same model constructed
\* from its toJSON() output has the first instance's properties of the
\* columns that are not hidden, and no others.
C17_RoundTrip ==
  \A i \in DOMAIN instances :
    instances[i].hasProperties =>
      LET again == Construct(ToJSON(instances[i]), FALSE).instance.properties
          public == Omit(instances[i].properties, HiddenColumns)
      IN again.vals = public.vals

ClassOf(name) == CHOOSE class \in SubclassingClasses : class.name = name
FieldsOf(declaration, column) ==
  IF column \in DeclaredColumns(declaration)
  THEN DOMAIN DeclarationOf(declaration, column) ELSE {}

\* C18: the schema of a class that merges is the deep merge of the base
\* declaration and the subclass's: each rule field the subclass mentions
\* has the subclass's value, each field only the base mentions has the
\* base's, and the columns of both are there; a class that overrides
\* `schema` has its own columns only and so no primary key.  An instance has
\* properties and accessors for the columns of its own class's schema only.
C18_SchemaResolution ==
  LET class == ClassOf(model.name)
      own == class.own
      base == IF class.override THEN << >> ELSE BaseDeclaration
  IN /\ Columns = DeclaredColumns(own) \cup DeclaredColumns(base)
     /\ Len(model.schema) = Cardinality(Columns)
     /\ \A c \in Columns :
          /\ \A f \in FieldsOf(own, c) : RuleOf(c)[f] = DeclarationOf(own, c)[f]
          /\ \A f \in FieldsOf(base, c) \ FieldsOf(own, c) :
               RuleOf(c)[f] = DeclarationOf(base, c)[f]
          /\ \A f \in DOMAIN RuleOf(c) \ (FieldsOf(own, c) \cup FieldsOf(base, c)) :
               RuleOf(c)[f] = Col(c, "undefined")[f]
     /\ \A i \in DOMAIN instances :
          /\ Range(instances[i].properties.keys) \subseteq Columns
          /\ DOMAIN instances[i].properties.vals = Columns
          /\ instances[i].primaryKey =
               IF "id" \in Columns THEN "id" ELSE ""
          /\ \A key \in {"id", "foo"} \ Columns : IsUndefined(Read(instances[i], key))

\* C18 witness: an instance of the class whose declaration retypes the
\* inherited primary key failed the type check of the subclass while the
\* column still is the primary key.
C18_Witness ==
  /\ model.name = "Retyped"
  /\ RuleOf("id").primaryKey
  /\ last.op = "validate"
  /\ last.error = "ValidationError: id must be of type uuid"
  /\ IsSet(instances[last.inst].properties.vals["foo"])

Started(o) == o \in DOMAIN ops' /\ o \notin DOMAIN ops
Answered(o) == o \in DOMAIN ops /\ ops[o].pc = "storing" /\ ops'[o].pc = "resolved"
Static(o) == ~instances[ops[o].inst].hasProperties

\* C11: in a model with a primary key, destroy() and Model.destroy(key) issue one delete addressed at the
\* primary-key value of the instance (the key passed to the static method);
\* when the store has answered, the operation resolves to null whether or
\* not the row existed, no row has that key and no other row changed; a
\* find(key) resolves to null exactly when no row has the key, so it does
\* after a destroy of that key.
C11_DestroyThenFind ==
  [][ PrimaryKeyOf(model.schema) # "" => \A o \in DOMAIN ops' :
        /\ (Started(o) /\ ops'[o].kind = "destroy") =>
             LET call == calls'[Len(calls')]
                 inst == instances'[ops'[o].inst]
             IN /\ Len(calls') = Len(calls) + 1
                /\ call.op = o /\ call.kind = "delete"
                /\ call.table = Tableize(model.name)
                /\ call.where = Read(inst, PrimaryKeyOf(model.schema))
                /\ ~inst.hasProperties => call.where = ops'[o].argument
        /\ (Started(o) /\ ops'[o].kind = "find") =>
             LET call == calls'[Len(calls')] IN
             /\ Len(calls') = Len(calls) + 1
             /\ call.op = o /\ call.kind = "select"
             /\ call.table = Tableize(model.name)
             /\ call.where = ops'[o].argument
        /\ (Answered(o) /\ ops[o].kind = "destroy") =>
             /\ ops'[o].result = 0 /\ ops'[o].results = << >> /\ ops'[o].error = ""
             /\ instances' = instances
             /\ \A id \in Ids :
                  table'[id] = IF IsSet(ops[o].where) /\ ops[o].where.n = id
                               THEN NoRow ELSE table[id]
        /\ (Answered(o) /\ ops[o].kind = "find") =>
             /\ table' = table
             /\ ops'[o].result = 0 <=> RowAt(ops[o].where) = NoRow
             /\ ops'[o].result # 0 =>
                  Reflects(instances'[ops'[o].result], RowAt(ops[o].where)) ]_vars

\* C11 witness: Model.destroy(key) of a stored row resolved, and a
\* find(key) issued after it resolved to null.
C11_Witness ==
  \E d, f \in DOMAIN ops :
    /\ d < f
    /\ ops[d].kind = "destroy" /\ ops[d].pc = "resolved" /\ Static(d)
    /\ ops[f].kind = "find" /\ ops[f].pc = "resolved" /\ ops[f].result = 0
    /\ ops[f].argument = ops[d].argument
    /\ sequence > ops[d].argument.n

\* C19: find(), where() and Model.destroy() take the table and the primary
\* key from a context-only instance whose properties are left unset; they
\* never throw or reject with a ValidationError, and find() and where()
\* resolve to instances with the values of the rows, whatever the rows hold.
C19_ReadsNeverValidate ==
  [][ /\ last'.op \in {"find", "where", "destroy"} => last'.error \notin ValidationErrors
      /\ \A o \in DOMAIN ops' :
           /\ (ops'[o].kind \in {"find", "where"} \/ ops'[o].argument # Undefined) =>
                LET context == instances'[ops'[o].inst] IN
                /\ ~context.hasProperties /\ ~context.accessors
                /\ context.properties = EmptyObject
                /\ context.tableName = Tableize(model.name)
                /\ context.primaryKey = PrimaryKeyOf(model.schema)
                /\ \A k \in DOMAIN calls' :
                     calls'[k].op = o => calls'[k].table = context.tableName
           /\ ops'[o].kind \in {"find", "where", "destroy"} =>
                /\ ops'[o].error \notin ValidationErrors
                /\ ops'[o].pc = "rejected" => ops'[o].raised # ""
           /\ (Answered(o) /\ ops[o].kind = "where") =>
                LET rows == Matching(calls[CHOOSE k \in DOMAIN calls : calls[k].op = o].filter) IN
                /\ Len(ops'[o].results) = Len(rows)
                /\ \A k \in DOMAIN rows : Reflects(instances'[ops'[o].results[k]], rows[k])
           /\ (Answered(o) /\ ops[o].kind = "find" /\ RowAt(ops[o].where) # NoRow) =>
                Reflects(instances'[ops'[o].result], RowAt(ops[o].where)) ]_vars

\* C19 witness: a find() or a where() resolved to an instance that holds
\* null in a notNull column.
C19_Witness ==
  \E o \in DOMAIN ops :
    /\ ops[o].kind \in {"find", "where"} /\ ops[o].pc = "resolved"
    /\ \E r \in ({ops[o].result} \cup Range(ops[o].results)) \ {0} :
         \E c \in Columns : RuleOf(c).notNull /\ IsNull(instances[r].properties.vals[c])

\* C20: every operation calls the store at most once; when the store
\* raises an error the operation rejects with that error as it is, and a
\* settled operation does nothing more: no call is added for it and the
\* calls made stay as they were.
C20_NoRetry ==
  [][ /\ Len(calls') >= Len(calls)
      /\ SubSeq(calls', 1, Len(calls)) = calls
      /\ \A o \in DOMAIN ops' :
           /\ Cardinality({k \in DOMAIN calls' : calls'[k].op = o}) <= 1
           /\ ops'[o].raised # "" =>
                /\ ops'[o].pc = "rejected"
                /\ ops'[o].error = ops'[o].raised
                /\ ops'[o].result = 0 /\ ops'[o].results = << >>
           /\ (o \in DOMAIN ops /\ ops[o].pc \in {"resolved", "rejected"}) =>
                /\ ops'[o] = ops[o]
                /\ CallsOf(o) = {k \in DOMAIN calls' : calls'[k].op = o}
           /\ (o \in DOMAIN ops /\ ops[o].pc = "storing" /\ ops'[o].pc = "rejected") =>
                /\ ops'[o].raised # ""
                /\ table' = table /\ calls' = calls /\ instances' = instances ]_vars

\* C20 witness: the store failed a save() or an update() and it failed a
\* find(), a where() or a destroy(): both rejected with the store's error.
C20_Witness ==
  \E a, b \in DOMAIN ops :
    /\ ops[a].kind \in {"save", "update"} /\ ops[b].kind \in {"find", "where", "destroy"}
    /\ ops[a].pc = "rejected" /\ ops[b].pc = "rejected"
    /\ ops[a].error = ops[a].raised /\ ops[a].raised # ""
    /\ ops[b].error = "StoreError: connection lost"

\* C21: a call of validate(), whether it returns true or throws, leaves the
\* properties of the instance (and every other instance) as they were; a
\* column that is not set and was checked against its default stays not set.
C21_ValidateWritesNothing ==
  [][ ( /\ last'.op = "validate"
        /\ nextTickQueue' = nextTickQueue /\ ops' = ops /\ writes' = writes )
      => /\ instances' = instances
         /\ \A c \in Columns :
              IsUndefined(instances[last'.inst].properties.vals[c])
                => IsUndefined(instances'[last'.inst].properties.vals[c]) ]_vars

\* C21 witness: validate() returned true on an instance with a column that
\* has a default and is not set, and the column is still not set.
C21_Witness ==
  /\ last.op = "validate" /\ last.error = ""
  /\ \E c \in Columns :
       /\ RuleOf(c).defaultValue.kind # "none"
       /\ IsUndefined(instances[last.inst].properties.vals[c])

\* An instance that an operation resolved to: its properties are the values
\* of a stored row.
FromStore(i) ==
  \E p \in DOMAIN ops : i = ops[p].result \/ i \in Range(ops[p].results)

\* C22: when an update() of an instance that save(), update(), find() or
\* where() resolved to, and that the program did not write to, is answered
\* by the store, every column with a transform has in the row the value it
\* had before: a stored value is not transformed again.
C22_NotTransformedAgain ==
  [][ \A o \in DOMAIN ops :
        ( /\ Answered(o) /\ ops[o].kind = "update"
          /\ FromStore(ops[o].inst)
          /\ RowAt(ops[o].where) # NoRow )
        => \A c \in Columns :
             (RuleOf(c).transform # "none" /\ IsSet(table[ops[o].where.n][SnakeCase(c)]))
               => table'[ops[o].where.n][SnakeCase(c)]
                    = table[ops[o].where.n][SnakeCase(c)] ]_vars

\* The callback of Promise.props of the operation o runs in this step.
WrittenBack(o) ==
  /\ o \in DOMAIN ops /\ ops[o].pc = "transforming" /\ ops'[o].pc # "transforming"
  /\ AllResolved(ops[o].promises)

\* A write of the caller overtook the transform of column c of operation o.
Overtaken(o, c) ==
  /\ ops[o].promises[c].state = "resolved"
  /\ instances[ops[o].inst].properties.vals[c].t # "promise"

\* C23: a value the caller wrote to a column while the transforms of a
\* pipeline on the instance were pending is still the value of the column
\* when the pipeline has written its results back, and no transform is ever
\* called with a pending promise as its value.
C23_WriteNotLost ==
  [][ /\ \A o \in DOMAIN ops, c \in Columns :
           (WrittenBack(o) /\ Overtaken(o, c))
             => instances'[ops[o].inst].properties.vals[c]
                  = instances[ops[o].inst].properties.vals[c]
      /\ \A o \in DOMAIN ops', c \in Columns :
           ops'[o].promises[c].input.t # "promise" ]_vars

====
